---- MODULE Spec2Model ----
(***************************************************************************)
(* A model of the nebula path tracer: the scene and its bounding-volume    *)
(* hierarchy (src/src/scene/), the brute-force scene of the earlier        *)
(* revision (src/src/scene.rs), the materials (src/src/material.rs) and    *)
(* the renderer (src/src/render.rs).                                       *)
(*                                                                         *)
(* Numbers.  The program computes in f32.  The model computes exactly:     *)
(* coordinates are integers, a ray direction is an integer vector dn over  *)
(* a denominator dd with |dn| = dd (a unit vector), a ray parameter t is a *)
(* rational [n, d] in lowest terms with d > 0.  sqrt is the integer square *)
(* root (exact on the perfect squares the catalogue produces).  The test   *)
(* |x| < f32::EPSILON is x = 0: every non-zero value the model forms is a  *)
(* rational with a small denominator, far above 1.2e-7 in magnitude.       *)
(***************************************************************************)
EXTENDS Integers, Sequences, FiniteSets, TLC

VARIABLES
    objects,    \* Scene.objects: the primitives, in order
    bvh,        \* Scene.bvh: NoBvh, or the tree build_bvh stored
    result,     \* what the last Scene call did: idle, a panic, or hit's return
    stack,      \* ray_color: the call stack, innermost frame last
    ret,        \* ray_color: what the call for the primary ray returned
    maxDepth,   \* ray_color / render: the max_depth argument
    trace,      \* ray_color: the calls made at depth 1, in order
    dims,       \* render: image_width and image_height
    rows,       \* render: each row task's position
    lock,       \* render: the holder of the Mutex around the pixel buffer
    buffer,     \* render: image_data_raw
    writes,     \* render: how often each buffer index was written, and by which row
    bytes,      \* render: the Vec<u8> returned, once it is
    arith       \* render: the u32 values of the buffer length and a write index

sceneVars == <<objects, bvh, result>>
colorVars == <<stack, ret, maxDepth, trace>>
renderVars == <<dims, rows, lock, buffer, writes, bytes, arith>>
vars == <<objects, bvh, result, stack, ret, maxDepth, trace,
          dims, rows, lock, buffer, writes, bytes, arith>>

(***************************************************************************)
(* Bounds of the model.                                                    *)
(***************************************************************************)
\* the longest Scene.objects the model builds a hierarchy over
MaxObjects == 6

(***************************************************************************)
(* glam::Vec3 over the integers.                                           *)
(***************************************************************************)
Axes == 1..3

VAdd(a, b) == <<a[1] + b[1], a[2] + b[2], a[3] + b[3]>>

VSub(a, b) == <<a[1] - b[1], a[2] - b[2], a[3] - b[3]>>

VScale(k, a) == <<k * a[1], k * a[2], k * a[3]>>

Dot(a, b) == a[1] * b[1] + a[2] * b[2] + a[3] * b[3]

Cross(a, b) == <<a[2] * b[3] - a[3] * b[2],
                 a[3] * b[1] - a[1] * b[3],
                 a[1] * b[2] - a[2] * b[1]>>

IMin(a, b) == IF a <= b THEN a ELSE b

IMax(a, b) == IF a >= b THEN a ELSE b

VMin(a, b) == <<IMin(a[1], b[1]), IMin(a[2], b[2]), IMin(a[3], b[3])>>

VMax(a, b) == <<IMax(a[1], b[1]), IMax(a[2], b[2]), IMax(a[3], b[3])>>

Abs(x) == IF x < 0 THEN -x ELSE x

(***************************************************************************)
(* Scalars: rationals in lowest terms.                                     *)
(***************************************************************************)
RECURSIVE Gcd(_, _)
Gcd(a, b) == IF b = 0 THEN a ELSE Gcd(b, a % b)

\* n / d for d # 0
Rat(n, d) ==
    LET g == Gcd(Abs(n), Abs(d))
        s == IF d < 0 THEN -1 ELSE 1
    IN  [n |-> (s * n) \div g, d |-> (s * d) \div g]

RLt(a, b) == a.n * b.d < b.n * a.d

RLe(a, b) == a.n * b.d <= b.n * a.d

RMin(a, b) == IF RLe(a, b) THEN a ELSE b

RMax(a, b) == IF RLe(b, a) THEN a ELSE b

\* f32::sqrt on the model's grid: the integer square root
Isqrt(n) == CHOOSE k \in 0..n : k * k <= n /\ (k + 1) * (k + 1) > n

(***************************************************************************)
(* Ray (src/src/ray.rs).  Ray::new normalizes the direction, so a ray's    *)
(* direction is the unit vector dn / dd.                                   *)
(***************************************************************************)
Ray(origin, dn, dd) == [origin |-> origin, dn |-> dn, dd |-> dd]

\* the rays queried: two oblique ones along the same line in opposite senses,
\* one parallel to the z axis, one oblique pointing away from every primitive
Rays == { Ray(<<0, 0, 0>>, <<1, 2, 2>>, 3),
          Ray(<<3, 6, 6>>, <<-1, -2, -2>>, 3),
          Ray(<<1, 2, -10>>, <<0, 0, 1>>, 1),
          Ray(<<0, 0, 0>>, <<-1, -2, -2>>, 3) }

\* render.rs: const T_MIN: f32 = 0.001
T_MIN == [n |-> 1, d |-> 1000]

\* render.rs: const T_MAX: f32 = 100000.0
T_MAX == [n |-> 100000, d |-> 1]

\* the query intervals: the renderer's, one ending at a surface, one starting
\* behind the nearest surface
Intervals == { <<T_MIN, T_MAX>>, <<T_MIN, Rat(3, 1)>>, <<Rat(4, 1), T_MAX>> }

(***************************************************************************)
(* HitRecord (src/src/scene/mod.rs).  point is the rational vector v / d;  *)
(* normal is the vector v / sqrt(q), so that a normalized vector v / |v|   *)
(* is [v, q = v.v] and a vector with rational components v / d is          *)
(* [v, q = d*d].                                                           *)
(***************************************************************************)
NoHit == [some |-> FALSE]

Some(rec) == [some |-> TRUE, rec |-> rec]

\* Vec3::normalize of the vector v / (anything positive)
Normalize(v) == [v |-> v, q |-> Dot(v, v)]

\* the struct literal HitRecord { point, normal, t, material }
HitRecordLiteral(point, normal, t, material) ==
    [point |-> point, normal |-> normal, t |-> t, material |-> material]

\* HitRecord::new: the normal is normalized
HitRecordNew(point, nv, t, material) ==
    HitRecordLiteral(point, Normalize(nv), t, material)

\* |normal| = 1 (a zero vector normalizes to NaN, which is not of unit length)
IsUnit(normal) == normal.q > 0 /\ Dot(normal.v, normal.v) = normal.q

\* Ray::at(t), as a vector over the denominator t.d * dd
RayAt(ray, t) ==
    [v |-> VAdd(VScale(t.d * ray.dd, ray.origin), VScale(t.n, ray.dn)),
     d |-> t.d * ray.dd]

(***************************************************************************)
(* AABB (src/src/scene/bvh.rs).                                            *)
(***************************************************************************)
AABBNew(min, max) == [min |-> min, max |-> max]

\* the mutant of AABBMerge: max is taken from self alone
AABBMergeMinOnly(a, b) == [min |-> VMin(a.min, b.min), max |-> a.max]

\* AABB::merge
AABBMerge(a, b) == [min |-> VMin(a.min, b.min), max |-> VMax(a.max, b.max)]

SurfaceAreaHalf(box) ==
    LET e == VSub(box.max, box.min)
    IN  e[1] * e[2] + e[2] * e[3] + e[3] * e[1]

\* the branch of AABB::hit for a direction component within EPSILON of zero:
\* TRUE when the axis rejects the ray
ParallelRejects(box, ray, i) ==
    ray.origin[i] <= box.min[i] \/ ray.origin[i] >= box.min[i]

\* AABB::hit, axes i..3, the running interval being (f32::MIN, f32::MAX) while
\* iv.set is FALSE and [iv.lo, iv.hi] after
RECURSIVE SlabsFrom(_, _, _, _)
SlabsFrom(box, ray, i, iv) ==
    IF i > 3 THEN TRUE
    ELSE IF ray.dn[i] = 0
    THEN IF ParallelRejects(box, ray, i) THEN FALSE
         ELSE SlabsFrom(box, ray, i + 1, iv)
    ELSE LET a == Rat((box.min[i] - ray.origin[i]) * ray.dd, ray.dn[i])
             b == Rat((box.max[i] - ray.origin[i]) * ray.dd, ray.dn[i])
             t0 == IF RLt(b, a) THEN b ELSE a
             t1 == IF RLt(b, a) THEN a ELSE b
             lo == IF iv.set THEN RMax(iv.lo, t0) ELSE t0
             hi == IF iv.set THEN RMin(iv.hi, t1) ELSE t1
         IN  IF RLt(hi, lo) \/ hi.n <= 0 THEN FALSE
             ELSE SlabsFrom(box, ray, i + 1, [set |-> TRUE, lo |-> lo, hi |-> hi])

AABBHit(box, ray) == SlabsFrom(box, ray, 1, [set |-> FALSE])

(***************************************************************************)
(* The primitives (src/src/scene/primitive.rs).  A primitive's material is *)
(* the name of one of the Material constants of material.rs.               *)
(***************************************************************************)
SphereNew(center, radius, material) ==
    [kind |-> "Sphere", center |-> center, radius |-> radius,
     material |-> material]

\* Triangle::new: without vertex normals the face normal
\* normalize(edge1 x edge2) serves for all three (the division is exact for
\* the axis-aligned faces of the catalogue)
TriangleNew(vertices, normals, material) ==
    LET v0 == vertices[1]
        v1 == vertices[2]
        v2 == vertices[3]
        c == Cross(VSub(v1, v0), VSub(v2, v0))
        len == Isqrt(Dot(c, c))
        normal == <<c[1] \div len, c[2] \div len, c[3] \div len>>
    IN  IF normals = <<>>
        THEN [kind |-> "Triangle", v0 |-> v0, v1 |-> v1, v2 |-> v2,
              n0 |-> normal, n1 |-> normal, n2 |-> normal,
              material |-> material]
        ELSE [kind |-> "Triangle", v0 |-> v0, v1 |-> v1, v2 |-> v2,
              n0 |-> normals[1], n1 |-> normals[2], n2 |-> normals[3],
              material |-> material]

\* The catalogue Scene::add draws from.  The sphere and the first triangle
\* meet the line through (0,0,0) and (3,6,6) in the same point (1,2,2); the
\* first triangle carries three different vertex normals, the second none.
Prims == <<
    SphereNew(<<2, 4, 4>>, 3, "LUMINOUS"),
    TriangleNew(<< <<0, 0, 2>>, <<4, 0, 2>>, <<0, 4, 2>> >>,
                << <<1, 0, 0>>, <<0, 1, 0>>, <<0, 0, 1>> >>, "PLASTER"),
    TriangleNew(<< <<0, 0, 4>>, <<8, 0, 4>>, <<0, 8, 4>> >>, <<>>, "MIRROR") >>

PrimIds == DOMAIN Prims

\* OutOfRange without the upper comparison
OutOfRangeBelowOnly(t, t_min, t_max) == RLt(t, t_min)

\* the comparison root < t_min || root > t_max of both primitives: TRUE when
\* the root is outside the query interval
OutOfRange(t, t_min, t_max) == RLt(t, t_min) \/ RLt(t_max, t)

\* Sphere::hit
SphereHit(s, ray, t_min, t_max) ==
    LET oc == VSub(ray.origin, s.center)
        half_b == Dot(oc, ray.dn)                     \* over dd
        c == Dot(oc, oc) - s.radius * s.radius
        disc == half_b * half_b - c * ray.dd * ray.dd \* over dd * dd
        sqrt_d == Isqrt(disc)                         \* over dd
        near == Rat(-half_b - sqrt_d, ray.dd)
        far == Rat(-half_b + sqrt_d, ray.dd)
        Rec(root) ==
            LET point == RayAt(ray, root)
                \* (point - center) / radius, up to a positive factor
                normal == VSub(point.v, VScale(point.d, s.center))
            IN  Some(HitRecordNew(point, normal, root, s.material))
    IN  IF disc > 0
        THEN IF OutOfRange(near, t_min, t_max)
             THEN IF OutOfRange(far, t_min, t_max) THEN NoHit ELSE Rec(far)
             ELSE Rec(near)
        ELSE NoHit

\* Sphere::bounding_box
SphereBox(s) ==
    LET r == <<s.radius, s.radius, s.radius>>
    IN  AABBNew(VSub(s.center, r), VAdd(s.center, r))

\* the HitRecord Triangle::hit returns: the normal interpolated from the
\* vertex normals with the weights (a - v - w, v, w) / a
TriangleRecord(tri, ray, a, v, w, t) ==
    LET sg == IF a < 0 THEN -1 ELSE 1
        nv == VAdd(VAdd(VScale(a - v - w, tri.n0), VScale(v, tri.n1)),
                   VScale(w, tri.n2))
    IN  HitRecordLiteral(RayAt(ray, t), [v |-> VScale(sg, nv), q |-> a * a],
                         t, tri.material)

\* Triangle::hit (Moller-Trumbore).  h and a are over dd; v and w are the
\* numerators of the barycentric parameters over a.
TriangleHit(tri, ray, t_min, t_max) ==
    LET edge1 == VSub(tri.v1, tri.v0)
        edge2 == VSub(tri.v2, tri.v0)
        h == Cross(ray.dn, edge2)
        a == Dot(edge1, h)
        s == VSub(ray.origin, tri.v0)
        v == Dot(s, h)
        q == Cross(s, edge1)
        w == Dot(ray.dn, q)
        t == Rat(ray.dd * Dot(edge2, q), a)
        One == Rat(1, 1)
        Zero == Rat(0, 1)
    IN  IF a = 0 THEN NoHit
        ELSE IF RLt(Rat(v, a), Zero) \/ RLt(One, Rat(v, a)) THEN NoHit
        ELSE IF RLt(Rat(w, a), Zero) \/ RLt(One, Rat(v + w, a)) THEN NoHit
        ELSE IF OutOfRange(t, t_min, t_max) THEN NoHit
        ELSE Some(TriangleRecord(tri, ray, a, v, w, t))

\* Triangle::bounding_box
TriangleBox(tri) ==
    AABBNew(VMin(VMin(tri.v0, tri.v1), tri.v2),
            VMax(VMax(tri.v0, tri.v1), tri.v2))

\* Hittable::hit of primitive p of the catalogue
PrimHit(p, ray, t_min, t_max) ==
    IF Prims[p].kind = "Sphere"
    THEN SphereHit(Prims[p], ray, t_min, t_max)
    ELSE TriangleHit(Prims[p], ray, t_min, t_max)

\* Hittable::bounding_box of primitive p of the catalogue
BoundingBox(p) ==
    IF Prims[p].kind = "Sphere" THEN SphereBox(Prims[p])
    ELSE TriangleBox(Prims[p])

(***************************************************************************)
(* BVHNode (src/src/scene/bvh.rs).  Axes and split indices are the code's, *)
(* counted from 0; sequences are TLA+'s, counted from 1.                   *)
(***************************************************************************)
\* Scene::MAX_OBJECTS_PER_BVH_LEAF
MAX_OBJECTS_PER_BVH_LEAF == 5

NoBvh == [kind |-> "None"]

\* the key of the two sort_by calls: bounding_box().min[axis]
SortKey(p, axis) == BoundingBox(p).min[axis + 1]

\* objs with x inserted behind every element whose key is not above x's
InsertByKey(objs, x, axis) ==
    LET k == Cardinality({i \in 1..Len(objs) :
                             SortKey(objs[i], axis) <= SortKey(x, axis)})
    IN  SubSeq(objs, 1, k) \o <<x>> \o SubSeq(objs, k + 1, Len(objs))

\* slice::sort_by on the key of `axis`: a stable sort
RECURSIVE SortBy(_, _)
SortBy(objs, axis) ==
    IF objs = <<>> THEN <<>>
    ELSE InsertByKey(SortBy(SubSeq(objs, 1, Len(objs) - 1), axis),
                     objs[Len(objs)], axis)

\* the order of the slice while the loop body runs for `axis`: the sorts of
\* the axes before it have been applied in place
RECURSIVE OrderAt(_, _)
OrderAt(objs, axis) ==
    IF axis = 0 THEN SortBy(objs, 0) ELSE SortBy(OrderAt(objs, axis - 1), axis)

\* bbox after merging the boxes of objs, one after the other, into `start`
RECURSIVE MergeAll(_, _)
MergeAll(start, objs) ==
    IF objs = <<>> THEN start
    ELSE MergeAll(AABBMerge(start, BoundingBox(Head(objs))), Tail(objs))

\* the box both cost passes start from: AABB::new(Vec3::ZERO, Vec3::ZERO)
ZeroBox == AABBNew(<<0, 0, 0>>, <<0, 0, 0>>)

\* cost_r2l[i] after the reverse: the right group is order[i+1..]
CostR2L(order, i) ==
    SurfaceAreaHalf(MergeAll(ZeroBox, SubSeq(order, i + 2, Len(order))))
        * (Len(order) - i - 1)

\* the cost of splitting `order` behind position i (0 <= i <= n-2)
SplitCost(order, i) ==
    SurfaceAreaHalf(MergeAll(ZeroBox, SubSeq(order, 1, i + 1))) * (i + 1)
        + CostR2L(order, i)

\* (best_axis, best_division_index, min_cost) before the loops: min_cost is
\* f32::MAX, above every cost the model forms
InitialBest == [axis |-> 0, index |-> 0, max |-> TRUE, cost |-> 0]

\* the update of one loop iteration: if cost < min_cost
BetterSplit(best, axis, i, cost) ==
    IF best.max \/ cost < best.cost
    THEN [axis |-> axis, index |-> i, max |-> FALSE, cost |-> cost]
    ELSE best

\* the two nested loops over axis in 0..3 and i in 0..n-1, from iteration
\* (axis, i) on; `order` is the slice as the sort for `axis` left it.  The
\* value is the best split with the slice as the last axis' sort left it.
RECURSIVE SearchFrom(_, _, _, _)
SearchFrom(order, axis, i, best) ==
    IF i > Len(order) - 2
    THEN IF axis = 2 THEN [best |-> best, order |-> order]
         ELSE SearchFrom(SortBy(order, axis + 1), axis + 1, 0, best)
    ELSE SearchFrom(order, axis, i + 1,
                    BetterSplit(best, axis, i, SplitCost(order, i)))

Search(objs) == SearchFrom(SortBy(objs, 0), 0, 0, InitialBest)

BestSplit(objs) == Search(objs).best

\* the slice after the final sort_by on best_axis
SortFinal(found) == SortBy(found.order, found.best.axis)

FinalOrder(objs) == SortFinal(Search(objs))

Leaf(objs, bbox) == [kind |-> "Leaf", objects |-> objs, bbox |-> bbox]

\* Internal with the left child stored on both sides
InternalLeftTwice(left, right) ==
    [kind |-> "Internal", left |-> left, right |-> left,
     bbox |-> AABBMerge(left.bbox, right.bbox)]

Internal(left, right) ==
    [kind |-> "Internal", left |-> left, right |-> right,
     bbox |-> AABBMerge(left.bbox, right.bbox)]

\* the mutant of LeftHalf: objects[..best_division_index]
LeftHalfExclusive(order, index) == SubSeq(order, 1, index)

\* objects[..best_division_index + 1]
LeftHalf(order, index) == SubSeq(order, 1, index + 1)

\* objects[best_division_index + 1..]
RightHalf(order, index) == SubSeq(order, index + 2, Len(order))

\* the end of a build that split: a panic of either recursive call unwinds
\* through it, otherwise the internal node is returned
Unwind(left, right) ==
    IF left.kind = "Panic" THEN left
    ELSE IF right.kind = "Panic" THEN right
    ELSE Internal(left, right)

\* BVHNode::build.  objects[0] of an empty slice is out of bounds: a panic.
RECURSIVE Build(_, _)
RECURSIVE BuildHalves(_, _, _)
BuildHalves(order, index, max_objects_per_leaf) ==
    Unwind(Build(LeftHalf(order, index), max_objects_per_leaf),
           Build(RightHalf(order, index), max_objects_per_leaf))

BuildSplit(found, max_objects_per_leaf) ==
    BuildHalves(SortFinal(found), found.best.index, max_objects_per_leaf)

Build(objs, max_objects_per_leaf) ==
    IF Len(objs) <= max_objects_per_leaf
    THEN IF objs = <<>> THEN [kind |-> "Panic"]
         ELSE Leaf(objs, MergeAll(BoundingBox(objs[1]), objs))
    ELSE BuildSplit(Search(objs), max_objects_per_leaf)

\* the caller's slice after build: sorted in place when it was split (the
\* recursive calls sort copies)
SliceAfterBuild(objs, max_objects_per_leaf) ==
    IF Len(objs) <= max_objects_per_leaf THEN objs ELSE FinalOrder(objs)

\* LeafScan without closest_t = hit.t: every primitive is tested against t_max
RECURSIVE LeafScanKeepsTMax(_, _, _, _, _)
LeafScanKeepsTMax(objs, ray, t_min, closest_hit, closest_t) ==
    IF objs = <<>> THEN closest_hit
    ELSE LET hit == PrimHit(Head(objs), ray, t_min, closest_t)
         IN  IF hit.some
             THEN LeafScanKeepsTMax(Tail(objs), ray, t_min, hit, closest_t)
             ELSE LeafScanKeepsTMax(Tail(objs), ray, t_min, closest_hit,
                                    closest_t)

\* the loop of the Leaf arm of BVHNode::hit over objs, closest_hit and
\* closest_t being as given
RECURSIVE LeafScan(_, _, _, _, _)
LeafScan(objs, ray, t_min, closest_hit, closest_t) ==
    IF objs = <<>> THEN closest_hit
    ELSE LET hit == PrimHit(Head(objs), ray, t_min, closest_t)
         IN  IF hit.some
             THEN LeafScan(Tail(objs), ray, t_min, hit, hit.rec.t)
             ELSE LeafScan(Tail(objs), ray, t_min, closest_hit, closest_t)

\* BVHNode::hit
RECURSIVE BVHHit(_, _, _, _)
BVHHit(node, ray, t_min, t_max) ==
    IF ~AABBHit(node.bbox, ray) THEN NoHit
    ELSE IF node.kind = "Internal"
    THEN LET l == BVHHit(node.left, ray, t_min, t_max)
             closest_t == IF l.some THEN l.rec.t ELSE t_max
             r == BVHHit(node.right, ray, t_min, closest_t)
         IN  IF r.some THEN r ELSE l
    ELSE LeafScan(node.objects, ray, t_min, NoHit, t_max)

\* Scene::hit of the earlier revision (src/src/scene.rs): the linear scan
\* over all objects
RECURSIVE LinearScan(_, _, _, _, _)
LinearScan(objs, ray, t_min, earliest_hit, t) ==
    IF objs = <<>> THEN earliest_hit
    ELSE LET hit == PrimHit(Head(objs), ray, t_min, t)
         IN  IF hit.some
             THEN LinearScan(Tail(objs), ray, t_min, hit, hit.rec.t)
             ELSE LinearScan(Tail(objs), ray, t_min, earliest_hit, t)

BruteForceHit(objs, ray, t_min, t_max) ==
    LinearScan(objs, ray, t_min, NoHit, t_max)

(***************************************************************************)
(* Scene (src/src/scene/mod.rs).  A panic ends the program: no call        *)
(* follows it.                                                             *)
(***************************************************************************)
Idle == [kind |-> "idle"]

Panic(call) == [kind |-> "panic", call |-> call]

Returned(ray, t_min, t_max, hit) ==
    [kind |-> "returned", ray |-> ray, t_min |-> t_min, t_max |-> t_max,
     hit |-> hit]

\* Scene::hit without the assertion: an unbuilt scene answers "no hit"
SceneHitUnchecked(tree, ray, t_min, t_max) ==
    IF tree.kind = "None" THEN Returned(ray, t_min, t_max, NoHit)
    ELSE Returned(ray, t_min, t_max, BVHHit(tree, ray, t_min, t_max))

\* Scene::hit: assert!(!self.bvh.is_none()), then the hierarchy's answer
SceneHit(tree, ray, t_min, t_max) ==
    IF tree.kind = "None" THEN Panic("hit")
    ELSE Returned(ray, t_min, t_max, BVHHit(tree, ray, t_min, t_max))

\* the states in which the render and ray_color parts rest
ColorIdle ==
    /\ stack = <<>>
    /\ ret = [kind |-> "none"]
    /\ maxDepth = 0
    /\ trace = <<>>

\* the Mutex around image_data_raw: free, or held by the task of row j
Free == [held |-> FALSE]

HeldBy(j) == [held |-> TRUE, by |-> j]

\* no u32 value computed
NoArith == [pc |-> "none"]

\* no render running: no image, no row task, no buffer
PixelsIdle ==
    /\ dims = [width |-> 0, height |-> 0]
    /\ rows = <<>>
    /\ lock = Free
    /\ buffer = <<>>
    /\ writes = <<>>
    /\ bytes = <<>>

RenderIdle == PixelsIdle /\ arith = NoArith

\* Scene::new
SceneInit ==
    /\ objects = <<>>
    /\ bvh = NoBvh
    /\ result = Idle

\* the mutant of Add: the hierarchy is kept
AddKeepsBvh(p) ==
    /\ result.kind # "panic"
    /\ Len(objects) < MaxObjects
    /\ objects' = Append(objects, p)
    /\ result' = Idle
    /\ UNCHANGED <<bvh, colorVars, renderVars>>

\* Scene::add(object)
Add(p) ==
    /\ result.kind # "panic"
    /\ Len(objects) < MaxObjects
    /\ objects' = Append(objects, p)
    /\ bvh' = NoBvh
    /\ result' = Idle
    /\ UNCHANGED <<colorVars, renderVars>>

\* Scene::build_bvh()
BuildBvh ==
    /\ result.kind # "panic"
    /\ LET tree == Build(objects, MAX_OBJECTS_PER_BVH_LEAF)
       IN  IF tree.kind = "Panic"
           THEN /\ result' = Panic("build_bvh")
                /\ UNCHANGED <<objects, bvh>>
           ELSE /\ bvh' = tree
                /\ objects' = SliceAfterBuild(objects, MAX_OBJECTS_PER_BVH_LEAF)
                /\ result' = Idle
    /\ UNCHANGED <<colorVars, renderVars>>

\* Scene::hit(ray, t_min, t_max)
Hit(ray, iv) ==
    /\ result.kind # "panic"
    /\ result' = SceneHit(bvh, ray, iv[1], iv[2])
    /\ UNCHANGED <<objects, bvh, colorVars, renderVars>>

Init == SceneInit /\ ColorIdle /\ RenderIdle

Next ==
    \/ \E p \in PrimIds : Add(p)
    \/ BuildBvh
    \/ \E ray \in Rays, iv \in Intervals : Hit(ray, iv)

Spec == Init /\ [][Next]_vars

(***************************************************************************)
(* Material (src/src/material.rs).  The components of the colour fields,   *)
(* dissolve and optical_density are in tenths, and so are the components   *)
(* of a scatter coefficient.  A colour is a Vec3 in units of               *)
(* 1 / (100 * ColorScale): every product colour * coefficient the          *)
(* recursion forms, down to depth 2, is then an integer.                   *)
(***************************************************************************)
\* the values of max_depth render is called with
MaxDepths == {0, 1}

RECURSIVE Pow10(_)
Pow10(k) == IF k = 0 THEN 1 ELSE 10 * Pow10(k - 1)

ColorScale == Pow10(2)

Grey(x) == <<x, x, x>>

PLASTER ==
    [ambient |-> Grey(1), diffuse |-> Grey(8), specular |-> Grey(8),
     emissive |-> Grey(0), transmission_filter |-> Grey(0),
     dissolve |-> 0, optical_density |-> 10]

LUMINOUS ==
    [ambient |-> Grey(0), diffuse |-> Grey(0), specular |-> Grey(0),
     emissive |-> Grey(10), transmission_filter |-> Grey(0),
     dissolve |-> 0, optical_density |-> 10]

MIRROR ==
    [ambient |-> Grey(0), diffuse |-> Grey(0), specular |-> Grey(20),
     emissive |-> Grey(0), transmission_filter |-> Grey(0),
     dissolve |-> 0, optical_density |-> 10]

GLASS ==
    [ambient |-> Grey(0), diffuse |-> Grey(0), specular |-> Grey(20),
     emissive |-> Grey(0), transmission_filter |-> Grey(10),
     dissolve |-> 9, optical_density |-> 15]

\* a material read from a file by from_mtl (transmission_filter is ONE):
\* tinted, half dissolved, without specular colour
TINTED ==
    [ambient |-> <<2, 0, 0>>, diffuse |-> <<8, 0, 4>>, specular |-> Grey(0),
     emissive |-> Grey(0), transmission_filter |-> Grey(10),
     dissolve |-> 5, optical_density |-> 10]

MaterialNames == {"PLASTER", "LUMINOUS", "MIRROR", "GLASS", "TINTED"}

MaterialOf(name) ==
    CASE name = "PLASTER" -> PLASTER
      [] name = "LUMINOUS" -> LUMINOUS
      [] name = "MIRROR" -> MIRROR
      [] name = "GLASS" -> GLASS
      [] name = "TINTED" -> TINTED

\* Vec3::max_element
MaxElement(v) == IMax(IMax(v[1], v[2]), v[3])

\* Vec3 * Vec3, a colour by a coefficient in tenths
Mul(color, coefficient) == [i \in Axes |-> (color[i] * coefficient[i]) \div 10]

\* self.ambient * (1.0 - self.dissolve) * AMBIENT_STRENGTH, AMBIENT_STRENGTH = 0.1
AmbientColor(m) ==
    [i \in Axes |-> (m.ambient[i] * (10 - m.dissolve) * ColorScale) \div 10]

\* self.emissive * 5.0
EmissiveColor(m) == [i \in Axes |-> m.emissive[i] * 50 * ColorScale]

\* self.diffuse * 0.5 * (1.0 - self.dissolve)
DiffuseCoefficient(m) == [i \in Axes |-> (m.diffuse[i] * (10 - m.dissolve)) \div 20]

\* self.specular * 0.5 * (1.0 - self.dissolve)
SpecularCoefficient(m) == [i \in Axes |-> (m.specular[i] * (10 - m.dissolve)) \div 20]

\* self.transmission_filter * self.dissolve
TransmissiveCoefficient(m) ==
    [i \in Axes |-> (m.transmission_filter[i] * m.dissolve) \div 10]

\* cos_theta = ray.direction . normal of a hit, in tenths: leaving the
\* material (0.6, sin_theta = 0.8) and entering it (-0.6)
CosThetas == {6, -6}

\* Material::refract, whether it returns Some.  Leaving the material
\* (cos_theta > 0), sin_phi = sin_theta * optical_density and the result is
\* None if sin_phi > 1.0; both are >= 0, so the squares are compared:
\* (1 - cos^2) * od^2 > 1.  Entering it, the result is always Some.
Refract(m, cos_theta) ==
    IF cos_theta > 0
    THEN ~ ((100 - cos_theta * cos_theta) * m.optical_density * m.optical_density
                > 10000)
    ELSE TRUE

ScatteredRay(channel, coefficient) ==
    [channel |-> channel, coefficient |-> coefficient]

\* the push of a ray whose coefficient has a positive component
PushIf(cond, ray) == IF cond THEN <<ray>> ELSE <<>>

\* the mutant of TransmissivePush: the ray is pushed without asking refract
TransmissivePushAlways(m, cos_theta) ==
    PushIf(MaxElement(TransmissiveCoefficient(m)) > 0,
           ScatteredRay("transmissive", TransmissiveCoefficient(m)))

TransmissivePush(m, cos_theta) ==
    PushIf(MaxElement(TransmissiveCoefficient(m)) > 0 /\ Refract(m, cos_theta),
           ScatteredRay("transmissive", TransmissiveCoefficient(m)))

\* Material::scatter: the rays pushed, in the order of the pushes.  A ray
\* is its channel and its coefficient; its direction is drawn at random
\* and shows in the model as the free choice of what the ray hits.
Scatter(m, cos_theta) ==
    PushIf(MaxElement(DiffuseCoefficient(m)) > 0,
           ScatteredRay("diffuse", DiffuseCoefficient(m)))
    \o PushIf(MaxElement(SpecularCoefficient(m)) > 0,
              ScatteredRay("specular", SpecularCoefficient(m)))
    \o TransmissivePush(m, cos_theta)

(***************************************************************************)
(* ray_color (src/src/render.rs).  The recursion is a call stack: a frame  *)
(* is one call, with its depth, what scene.hit returned for its ray, the   *)
(* rays scatter returned (did says whether scatter was called), the index  *)
(* of the next of them to trace, and the local color.  What a ray hits is  *)
(* a free choice: no surface, or a surface of one of the materials met     *)
(* under one of the angles of CosThetas.                                   *)
(***************************************************************************)
NoSurface == [some |-> FALSE]

Surface(name, cos_theta) == [some |-> TRUE, material |-> name, cos |-> cos_theta]

SurfaceHits == {Surface(name, c) : name \in MaterialNames, c \in CosThetas}

SceneHits == {NoSurface} \cup SurfaceHits

ZERO == <<0, 0, 0>>

\* m.ambient_color() + m.emissive_color()
BaseColor(name) == VAdd(AmbientColor(MaterialOf(name)), EmissiveColor(MaterialOf(name)))

Frame(depth, hit, did, scattered, color) ==
    [depth |-> depth, hit |-> hit, did |-> did, scattered |-> scattered,
     next |-> 1, color |-> color]

\* the mutant of DepthExceeded: the test is off by one
DepthExceededLate(depth, max_depth) == depth > max_depth + 1

\* if depth > max_depth
DepthExceeded(depth, max_depth) == depth > max_depth

\* ray_color from its entry to its for loop: the frame of a call whose ray
\* met hit.  A miss and a hit beyond max_depth leave nothing to trace.
RayColorEnter(depth, hit, max_depth) ==
    IF ~ hit.some
    THEN Frame(depth, hit, FALSE, <<>>, ZERO)
    ELSE IF DepthExceeded(depth, max_depth)
         THEN Frame(depth, hit, FALSE, <<>>, BaseColor(hit.material))
         ELSE Frame(depth, hit, TRUE,
                    Scatter(MaterialOf(hit.material), hit.cos),
                    BaseColor(hit.material))

Top == stack[Len(stack)]

\* color += ray_color(...) * scattered_ray.coefficient, and the loop moves on
Accumulate(frame, value) ==
    [frame EXCEPT !.color = VAdd(@, Mul(value, frame.scattered[frame.next].coefficient)),
                  !.next = @ + 1]

ColorInit ==
    /\ maxDepth \in MaxDepths
    /\ stack = <<>>
    /\ ret = [kind |-> "none"]
    /\ trace = <<>>

\* a call of ray_color: by render for the primary ray (depth 0), or by the
\* for loop of the innermost call for its next scattered ray (depth + 1)
Call(hit) ==
    /\ \/ stack = <<>> /\ ret.kind = "none"
       \/ stack # <<>> /\ Top.next <= Len(Top.scattered)
    /\ stack' = Append(stack, RayColorEnter(Len(stack), hit, maxDepth))
    /\ trace' = IF Len(stack) = 1
                THEN Append(trace, [ray |-> Top.scattered[Top.next], hit |-> hit])
                ELSE trace
    /\ UNCHANGED <<ret, maxDepth, sceneVars, renderVars>>

\* the return of the innermost call, once its loop has run out: to render,
\* or into the color of the calling frame
Return ==
    /\ stack # <<>>
    /\ Top.next > Len(Top.scattered)
    /\ IF Len(stack) = 1
       THEN /\ stack' = <<>>
            /\ ret' = [kind |-> "returned", hit |-> Top.hit, did |-> Top.did,
                       scattered |-> Top.scattered, value |-> Top.color]
       ELSE /\ stack' = [SubSeq(stack, 1, Len(stack) - 1) EXCEPT
                            ![Len(stack) - 1] = Accumulate(@, Top.color)]
            /\ UNCHANGED ret
    /\ UNCHANGED <<maxDepth, trace, sceneVars, renderVars>>

InitColor == SceneInit /\ ColorInit /\ RenderIdle

NextColor ==
    \/ \E hit \in SceneHits : Call(hit)
    \/ Return

\* the renderer runs ray_color to its end: a call in progress takes its
\* next step
SpecColor == InitColor /\ [][NextColor]_vars /\ WF_vars(NextColor)

(***************************************************************************)
(* render (src/src/render.rs).  One task per row j of (0..image_height),   *)
(* run by the thread pool in any interleaving.  A task walks its pixels    *)
(* i = 0..image_width-1: it samples the pixel, locks the Mutex around      *)
(* image_data_raw, writes the three channels and drops the guard at the    *)
(* end of the iteration.  After all tasks have ended, render locks the     *)
(* buffer and converts it to bytes.  A colour component is in hundredths;  *)
(* the mean of the samples of a pixel is given by SampleMean.              *)
(***************************************************************************)
MaxWidth == 2
MaxHeight == 3

\* color / samples_per_pixel of pixel (i, j): the given per-pixel colours
SampleMean(i, j) == <<30 * i + 5, 25 * j + 10, 60 * (i + j)>>

\* color.clamp(Vec3::ZERO, Vec3::ONE)
Clamp(color) == [k \in Axes |-> IMax(0, IMin(100, color[k]))]

\* (x * 255.99) as u8, for 0 <= x <= 1
ToByte(x) == (x * 25599) \div 10000

\* (image_width * image_height * 3) as usize
BufferLen(width, height) == width * height * 3

\* the mutant of PixelIndex: the row is not inverted
PixelIndexUpright(i, j, width, height) == (i + j * width) * 3

\* (i + (image_height - 1 - j) * image_width) * 3
PixelIndex(i, j, width, height) == (i + (height - 1 - j) * width) * 3

RowTask(i, pc, c, color) == [i |-> i, pc |-> pc, c |-> c, color |-> color]

RowIds == DOMAIN rows

\* the head of the loop over i: the next pixel, or the end of the task
NextPixel(i) ==
    IF i < dims.width THEN RowTask(i, "sample", 0, ZERO)
    ELSE RowTask(i, "done", 0, ZERO)

RenderInit ==
    /\ dims \in {[width |-> w, height |-> h] : w \in 1..MaxWidth, h \in 1..MaxHeight}
    /\ rows = [j \in 0..(dims.height - 1) |-> RowTask(0, "sample", 0, ZERO)]
    /\ lock = Free
    /\ buffer = [x \in 0..(BufferLen(dims.width, dims.height) - 1) |-> 0]
    /\ writes = [x \in 0..(BufferLen(dims.width, dims.height) - 1) |-> <<>>]
    /\ bytes = <<>>
    /\ arith = NoArith

\* the sampling loop of a pixel, the division and the clamp
Sample(j) ==
    /\ rows[j].pc = "sample"
    /\ rows' = [rows EXCEPT ![j] =
                   RowTask(@.i, "lock", 0, Clamp(SampleMean(@.i, j)))]
    /\ UNCHANGED <<dims, lock, buffer, writes, bytes, arith, sceneVars, colorVars>>

\* the mutant of Lock: the lock is taken whether it is free or not
LockUnguarded(j) ==
    /\ rows[j].pc = "lock"
    /\ lock' = HeldBy(j)
    /\ rows' = [rows EXCEPT ![j].pc = "write"]
    /\ UNCHANGED <<dims, buffer, writes, bytes, arith, sceneVars, colorVars>>

\* image_data_raw.lock().unwrap()
Lock(j) ==
    /\ rows[j].pc = "lock"
    /\ lock = Free
    /\ lock' = HeldBy(j)
    /\ rows' = [rows EXCEPT ![j].pc = "write"]
    /\ UNCHANGED <<dims, buffer, writes, bytes, arith, sceneVars, colorVars>>

\* one of the three assignments image_data_raw[index + c] = color[c]
Write(j) ==
    /\ rows[j].pc = "write"
    /\ rows[j].c < 3
    /\ LET index == PixelIndex(rows[j].i, j, dims.width, dims.height) + rows[j].c
       IN  /\ buffer' = [buffer EXCEPT ![index] = rows[j].color[rows[j].c + 1]]
           /\ writes' = [writes EXCEPT ![index] = Append(@, j)]
    /\ rows' = [rows EXCEPT ![j].c = @ + 1]
    /\ UNCHANGED <<dims, lock, bytes, arith, sceneVars, colorVars>>

\* the end of the iteration: the guard is dropped and the loop moves on
Unlock(j) ==
    /\ rows[j].pc = "write"
    /\ rows[j].c = 3
    /\ lock' = Free
    /\ rows' = [rows EXCEPT ![j] = NextPixel(@.i + 1)]
    /\ UNCHANGED <<dims, buffer, writes, bytes, arith, sceneVars, colorVars>>

\* after collect::<()>() has joined the tasks: the lock and the conversion
Collect ==
    /\ \A j \in RowIds : rows[j].pc = "done"
    /\ lock = Free
    /\ bytes = <<>>
    /\ bytes' = [x \in DOMAIN buffer |-> ToByte(buffer[x])]
    /\ UNCHANGED <<dims, rows, lock, buffer, writes, arith, sceneVars, colorVars>>

InitRender == SceneInit /\ ColorIdle /\ RenderInit

NextRender ==
    \/ \E j \in RowIds : Sample(j)
    \/ \E j \in RowIds : Lock(j)
    \/ \E j \in RowIds : Write(j)
    \/ \E j \in RowIds : Unlock(j)
    \/ Collect

SpecRender == InitRender /\ [][NextRender]_vars

\* the thread pool runs the row tasks, and render goes on after them: while
\* a step of render is possible, one is taken
SpecRenderLive == InitRender /\ [][NextRender]_vars /\ WF_vars(NextRender)

(***************************************************************************)
(* The u32 arithmetic of render (src/src/render.rs): image_width,          *)
(* image_height, i and j are u32, and so are the buffer length and the     *)
(* write index computed from them.  A u32 is kept as its two 16-bit        *)
(* halves, with a mark that tells whether a step on the way to it          *)
(* overflowed.  A build with overflow checks (debug) panics at such a      *)
(* step; one without (release) goes on with the value modulo 2^32.         *)
(***************************************************************************)
Half == 256 * 256

\* the u32 of a number below 2^31
U32(x) == [hi |-> x \div Half, lo |-> x % Half, wrapped |-> FALSE]

\* the product of two 16-bit halves, as two halves
Mul16(x, y) ==
    LET p0 == x * (y % 256)
        p1 == x * (y \div 256)
        mid == (p1 % 256) * 256 + p0
    IN  [hi |-> p1 \div 256 + mid \div Half, lo |-> mid % Half]

\* a * b in u32
U32Mul(a, b) ==
    LET ll == Mul16(a.lo, b.lo)
        lh == Mul16(a.lo, b.hi)
        hl == Mul16(a.hi, b.lo)
        mid == ll.hi + lh.lo + hl.lo
    IN  [hi |-> mid % Half, lo |-> ll.lo,
         wrapped |-> \/ a.wrapped \/ b.wrapped
                     \/ (a.hi # 0 /\ b.hi # 0)
                     \/ lh.hi # 0 \/ hl.hi # 0
                     \/ mid >= Half]

\* a + b in u32
U32Add(a, b) ==
    LET lo == a.lo + b.lo
        hi == a.hi + b.hi + lo \div Half
    IN  [hi |-> hi % Half, lo |-> lo % Half,
         wrapped |-> a.wrapped \/ b.wrapped \/ hi >= Half]

\* a - b in u32
U32Sub(a, b) ==
    LET lo == a.lo - b.lo
        hi == a.hi - b.hi - (IF lo < 0 THEN 1 ELSE 0)
    IN  [hi |-> hi % Half, lo |-> lo % Half,
         wrapped |-> a.wrapped \/ b.wrapped \/ hi < 0]

\* a < b, as the index check of the Vec compares them
U32Less(a, b) == a.hi < b.hi \/ (a.hi = b.hi /\ a.lo < b.lo)

\* the mutant of BufferLen32: the factor 3 is left out
BufferLen32NoChannels(width, height) == U32Mul(U32(width), U32(height))

\* image_width * image_height * 3
BufferLen32(width, height) == U32Mul(U32Mul(U32(width), U32(height)), U32(3))

\* (i + (image_height - 1 - j) * image_width) * 3 + c
WriteIndex32(i, j, c, width, height) ==
    U32Add(U32Mul(U32Add(U32(i),
                         U32Mul(U32Sub(U32Sub(U32(height), U32(1)), U32(j)),
                                U32(width))),
                  U32(3)),
           U32(c))

\* the images render is called for: small ones, a common one, the largest
\* that fit 2^32 and the smallest that do not
Dimensions ==
    {<<1, 1>>, <<2, 3>>, <<1920, 1080>>, <<32768, 32768>>,
     <<1431655765, 1>>, <<1431655766, 1>>, <<1, 1431655766>>,
     <<37838, 37838>>, <<65536, 65536>>, <<65537, 65535>>}

Builds == {"debug", "release"}

\* the pixels and channels a write index is computed for: the corners
Corners(width, height) == {0, width - 1} \X {0, height - 1} \X {0, 1, 2}

ArithInit ==
    arith \in {[pc |-> "start", build |-> b, width |-> d[1], height |-> d[2]] :
                  b \in Builds, d \in Dimensions}

ArithPanic(cause) ==
    [pc |-> "panic", cause |-> cause, build |-> arith.build,
     width |-> arith.width, height |-> arith.height]

\* vec![0.0; (image_width * image_height * 3) as usize]
Alloc ==
    /\ arith.pc = "start"
    /\ LET len == BufferLen32(arith.width, arith.height)
       IN  arith' = IF len.wrapped /\ arith.build = "debug"
                    THEN ArithPanic("overflow")
                    ELSE [pc |-> "allocated", build |-> arith.build,
                          width |-> arith.width, height |-> arith.height,
                          len |-> len]
    /\ UNCHANGED <<dims, rows, lock, buffer, writes, bytes, sceneVars, colorVars>>

\* image_data_raw[((i + (image_height - 1 - j) * image_width) * 3 + c) as usize]
WriteAt(i, j, c) ==
    /\ arith.pc \in {"allocated", "written"}
    /\ LET index == WriteIndex32(i, j, c, arith.width, arith.height)
       IN  arith' = IF index.wrapped /\ arith.build = "debug"
                    THEN ArithPanic("overflow")
                    ELSE IF ~ U32Less(index, arith.len)
                    THEN ArithPanic("bounds")
                    ELSE [pc |-> "written", build |-> arith.build,
                          width |-> arith.width, height |-> arith.height,
                          len |-> arith.len, i |-> i, j |-> j, c |-> c,
                          index |-> index]
    /\ UNCHANGED <<dims, rows, lock, buffer, writes, bytes, sceneVars, colorVars>>

InitIndex == SceneInit /\ ColorIdle /\ PixelsIdle /\ ArithInit

NextIndex ==
    \/ Alloc
    \/ \E p \in Corners(arith.width, arith.height) : WriteAt(p[1], p[2], p[3])

SpecIndex == InitIndex /\ [][NextIndex]_vars

(***************************************************************************)
(* The claims about the scene and its hierarchy, checked under Spec.       *)
(***************************************************************************)
\* the same answer: no hit in both, or the same t and the same material
SameHit(a, b) ==
    /\ a.some = b.some
    /\ a.some => a.rec.t = b.rec.t /\ a.rec.material = b.rec.material

\* the same hit-or-miss and the same t
SameT(a, b) ==
    /\ a.some = b.some
    /\ a.some => a.rec.t = b.rec.t

\* how often p occurs in objs
Count(objs, p) == Cardinality({i \in 1..Len(objs) : objs[i] = p})

\* objs in the order of the catalogue: one arrangement per multiset
Canonical(objs) ==
    LET Block(p) == [i \in 1..Count(objs, p) |-> p]
    IN  Block(1) \o Block(2) \o Block(3)

\* the primitives of the leaves of a tree, left to right
RECURSIVE LeafObjects(_)
LeafObjects(node) ==
    IF node.kind = "Leaf" THEN node.objects
    ELSE LeafObjects(node.left) \o LeafObjects(node.right)

\* C1: whenever Scene::hit returns, its answer (through the hierarchy built
\* from the scene's primitives) is the answer of the brute-force linear scan
\* over the same primitives for the same ray and interval: the same t and
\* material, or no hit in both.
C1_BvhEqualsBruteForce ==
    result.kind = "returned" =>
        SameHit(result.hit,
                BruteForceHit(objects, result.ray, result.t_min, result.t_max))

\* C2: a step of Scene::hit taken while no hierarchy is built (none built yet,
\* or an add since the last build_bvh) panics; it returns nothing.
C2_UnbuiltHitPanics ==
    [][(bvh = NoBvh /\ \E ray \in Rays, iv \in Intervals : Hit(ray, iv))
          => result' = Panic("hit")]_vars

\* C2 witness: the panic of a hit on a scene that holds primitives
C2_Witness ==
    result = Panic("hit") /\ objects # <<>> /\ bvh = NoBvh

\* t_min <= t <= t_max
InClosedInterval(t, t_min, t_max) == RLe(t_min, t) /\ RLe(t, t_max)

\* t_min <= t < t_max
InHalfOpenInterval(t, t_min, t_max) == RLe(t_min, t) /\ RLt(t, t_max)

\* C5 as claimed: every hit returned by Scene::hit (hence by BVHNode::hit)
\* and by the hit of each primitive of the scene for the same query has
\* t in [t_min, t_max).
C5_HalfOpen ==
    result.kind = "returned" =>
        /\ result.hit.some =>
               InHalfOpenInterval(result.hit.rec.t, result.t_min, result.t_max)
        /\ \A i \in 1..Len(objects) :
               LET h == PrimHit(objects[i], result.ray, result.t_min,
                                result.t_max)
               IN  h.some => InHalfOpenInterval(h.rec.t, result.t_min,
                                                result.t_max)

\* C5 as amended: t lies in the closed interval [t_min, t_max].
C5_Closed ==
    result.kind = "returned" =>
        /\ result.hit.some =>
               InClosedInterval(result.hit.rec.t, result.t_min, result.t_max)
        /\ \A i \in 1..Len(objects) :
               LET h == PrimHit(objects[i], result.ray, result.t_min,
                                result.t_max)
               IN  h.some => InClosedInterval(h.rec.t, result.t_min,
                                              result.t_max)

\* C5 witness: Scene::hit returned a hit at t = t_max
C5_Witness ==
    /\ result.kind = "returned"
    /\ result.hit.some
    /\ result.hit.rec.t = result.t_max

\* C6: every hit Scene::hit returns, and every hit of a primitive of the
\* scene for the same query, carries a normal of unit length.
C6_UnitNormal ==
    result.kind = "returned" =>
        /\ result.hit.some => IsUnit(result.hit.rec.normal)
        /\ \A i \in 1..Len(objects) :
               LET h == PrimHit(objects[i], result.ray, result.t_min,
                                result.t_max)
               IN  h.some => IsUnit(h.rec.normal)

\* the answer of the hierarchy rebuilt from the scene's primitives rearranged
\* into the catalogue's order.  Scene.objects runs through every arrangement
\* of every multiset, so agreeing with this one arrangement in every state is
\* agreeing with every permutation.
RebuiltHit ==
    BVHHit(Build(Canonical(objects), MAX_OBJECTS_PER_BVH_LEAF),
           result.ray, result.t_min, result.t_max)

\* C7 as claimed: the hierarchy rebuilt from a permutation of the primitives
\* answers every query as the original did: same hit-or-miss, t and material.
C7_RebuildSameHit ==
    result.kind = "returned" => SameHit(result.hit, RebuiltHit)

\* C7 as amended: the rebuilt hierarchy answers with the same hit-or-miss and
\* the same t (the material may differ).
C7_RebuildSameT ==
    result.kind = "returned" => SameT(result.hit, RebuiltHit)

\* C7 witness: a hit returned by a hierarchy with internal nodes that was built
\* from an arrangement other than the one it is compared with
C7_Witness ==
    /\ result.kind = "returned"
    /\ result.hit.some
    /\ bvh.kind = "Internal"
    /\ LeafObjects(bvh) # LeafObjects(Build(Canonical(objects),
                                            MAX_OBJECTS_PER_BVH_LEAF))

\* no leaf is empty or above the threshold, and no subtree is empty
RECURSIVE WellFormed(_)
WellFormed(node) ==
    IF node.kind = "Leaf"
    THEN Len(node.objects) >= 1
         /\ Len(node.objects) <= MAX_OBJECTS_PER_BVH_LEAF
    ELSE /\ node.kind = "Internal"
         /\ LeafObjects(node.left) # <<>>
         /\ LeafObjects(node.right) # <<>>
         /\ WellFormed(node.left)
         /\ WellFormed(node.right)

\* C10: the tree build_bvh stored has leaves of 1 to 5 primitives, internal
\* nodes with two non-empty subtrees, and leaves that hold each primitive of
\* the scene exactly as often as the scene does.
C10_LeavesPartition ==
    bvh # NoBvh =>
        /\ WellFormed(bvh)
        /\ \A p \in PrimIds : Count(LeafObjects(bvh), p) = Count(objects, p)
        /\ Len(LeafObjects(bvh)) = Len(objects)

\* C10 witness: a stored tree whose root is an internal node
C10_Witness == bvh # NoBvh /\ bvh.kind = "Internal"

(***************************************************************************)
(* The claims about ray_color and Material::scatter, checked under         *)
(* SpecColor.                                                              *)
(***************************************************************************)
\* the call for the primary ray has returned, and the ray had hit a surface
PrimaryHitReturned == stack = <<>> /\ ret.kind = "returned" /\ ret.hit.some

\* ambient + emissive of what a ray met, black for a miss
HitColor(hit) == IF hit.some THEN BaseColor(hit.material) ELSE ZERO

\* the sum of coefficient * colour of the surface met over the first k
\* calls at depth 1
RECURSIVE FirstBounce(_)
FirstBounce(k) ==
    IF k = 0 THEN ZERO
    ELSE VAdd(FirstBounce(k - 1),
              Mul(HitColor(trace[k].hit), trace[k].ray.coefficient))

\* C3 as stated: with maxDepth = 0 the colour of a primary ray that hits
\* is ambient + emissive of the first hit's material only, and no
\* scattered ray is traced.
C3_FirstHitOnly ==
    (maxDepth = 0 /\ PrimaryHitReturned)
        => /\ ret.value = BaseColor(ret.hit.material)
           /\ trace = <<>>

\* C3 amended: with maxDepth = 0 the call at depth 0 scatters; each ray
\* scatter returned at the first hit is traced once, in order, by a call at
\* depth 1 that scatters nothing, and the colour is ambient + emissive of
\* the first hit plus, per scattered ray, its coefficient times ambient +
\* emissive of the surface that ray meets (nothing if it meets none).
C3_OneBounce ==
    maxDepth = 0 =>
        /\ \A i \in DOMAIN stack :
              /\ stack[i].depth <= 1
              /\ stack[i].depth = 1 => ~ stack[i].did
        /\ PrimaryHitReturned =>
              /\ ret.scattered = Scatter(MaterialOf(ret.hit.material), ret.hit.cos)
              /\ Len(trace) = Len(ret.scattered)
              /\ \A k \in DOMAIN trace : trace[k].ray = ret.scattered[k]
              /\ ret.value = VAdd(BaseColor(ret.hit.material), FirstBounce(Len(trace)))

\* C3's case: plaster lit by a lamp its diffuse ray met, with maxDepth = 0
C3_Witness ==
    /\ maxDepth = 0
    /\ PrimaryHitReturned
    /\ ret.hit.material = "PLASTER"
    /\ Len(trace) = 2
    /\ trace[1].ray.channel = "diffuse"
    /\ trace[1].hit.some /\ trace[1].hit.material = "LUMINOUS"
    /\ ret.value # BaseColor("PLASTER")

ChannelOrder == <<"diffuse", "specular", "transmissive">>

\* the place of a channel in ChannelOrder
Place(channel) == CHOOSE k \in DOMAIN ChannelOrder : ChannelOrder[k] = channel

CoefficientOf(m, channel) ==
    CASE channel = "diffuse" -> DiffuseCoefficient(m)
      [] channel = "specular" -> SpecularCoefficient(m)
      [] channel = "transmissive" -> TransmissiveCoefficient(m)

HasChannel(rays, channel) == \E k \in DOMAIN rays : rays[k].channel = channel

\* what C8 says of the rays scatter returned for a hit
AsClaimedOfScatter(hit, rays) ==
    LET m == MaterialOf(hit.material)
        Positive(channel) == MaxElement(CoefficientOf(m, channel)) > 0
    IN  /\ Len(rays) \in 0..3
        /\ \A j, k \in DOMAIN rays :
              j < k => Place(rays[j].channel) < Place(rays[k].channel)
        /\ \A k \in DOMAIN rays :
              /\ rays[k].coefficient = CoefficientOf(m, rays[k].channel)
              /\ MaxElement(rays[k].coefficient) > 0
        /\ HasChannel(rays, "diffuse") <=> Positive("diffuse")
        /\ HasChannel(rays, "specular") <=> Positive("specular")
        /\ HasChannel(rays, "transmissive")
              <=> (Positive("transmissive") /\ Refract(m, hit.cos))

\* C8: scatter returns zero to three rays in the order diffuse, specular,
\* transmissive; a ray only for a coefficient with a positive component;
\* the diffuse and the specular ray whenever theirs has one; the
\* transmissive ray exactly when its has one and refract returns a
\* direction (no total internal reflection).
C8_ScatterChannels ==
    \A i \in DOMAIN stack :
        stack[i].did => AsClaimedOfScatter(stack[i].hit, stack[i].scattered)

\* C8's case: glass left under total internal reflection, where scatter
\* returned the specular ray alone
C8_Witness ==
    \E i \in DOMAIN stack :
        /\ stack[i].did
        /\ stack[i].hit.material = "GLASS"
        /\ ~ Refract(GLASS, stack[i].hit.cos)
        /\ Len(stack[i].scattered) = 1
        /\ stack[i].scattered[1].channel = "specular"

\* the bounds C9 puts on a call
DepthBounded(frame) ==
    /\ frame.depth <= maxDepth + 1
    /\ frame.did => frame.depth <= maxDepth
    /\ (frame.depth > maxDepth /\ frame.hit.some)
          => /\ ~ frame.did
             /\ frame.scattered = <<>>
             /\ frame.color = BaseColor(frame.hit.material)

\* C9: ray_color started at depth 0 terminates; scatter is called only at
\* depth <= maxDepth, no call has depth > maxDepth + 1, and a call at depth
\* > maxDepth that hits returns ambient + emissive without scattering.
C9_BoundedRecursion ==
    /\ [](\A i \in DOMAIN stack : stack[i].depth = i - 1 /\ DepthBounded(stack[i]))
    /\ <>(stack = <<>> /\ ret.kind = "returned")

\* C9's case: a call at depth maxDepth + 1 whose ray hit a surface, about
\* to return
C9_Witness ==
    /\ stack # <<>>
    /\ Top.depth = maxDepth + 1
    /\ Top.hit.some
    /\ Top.next > Len(Top.scattered)

(***************************************************************************)
(* The claim about the row tasks of render, checked under SpecRender.      *)
(***************************************************************************)
\* the output row an index of the buffer lies in
OutputRow(index) == index \div (3 * dims.width)

\* the bytes of the image whose output row y shows the samples of
\* j = height - 1 - y: row-major, top to bottom
ExpectedBytes ==
    [x \in 0..(3 * dims.width * dims.height - 1) |->
        ToByte(Clamp(SampleMean((x \div 3) % dims.width,
                                dims.height - 1 - OutputRow(x)))[(x % 3) + 1])]

AllRowsDone == \A j \in RowIds : rows[j].pc = "done"

\* C4: in every interleaving the task of row j writes only indices of
\* output row height - 1 - j, no index is written by two rows or twice,
\* once the tasks have ended every index of the buffer has been written
\* exactly once, and the bytes returned are those of the given colours,
\* whatever the interleaving was.
C4_RowsWriteDisjoint ==
    /\ \A x \in DOMAIN writes :
          /\ Len(writes[x]) <= 1
          /\ \A k \in DOMAIN writes[x] : OutputRow(x) = dims.height - 1 - writes[x][k]
    /\ AllRowsDone =>
          /\ DOMAIN writes = 0..(dims.width * dims.height * 3 - 1)
          /\ \A x \in DOMAIN writes : Len(writes[x]) = 1
    /\ bytes # <<>> => bytes = ExpectedBytes

\* C4's case: an image of several rows and columns, rendered to its bytes
C4_Witness ==
    /\ dims.width >= 2
    /\ dims.height >= 2
    /\ AllRowsDone
    /\ bytes # <<>>
    /\ bytes = ExpectedBytes

(***************************************************************************)
(* Further claims about the hierarchy and the scene, checked under Spec.   *)
(***************************************************************************)
\* the least and the greatest element of a non-empty set of numbers
Least(S) == CHOOSE x \in S : \A y \in S : x <= y

Greatest(S) == CHOOSE x \in S : \A y \in S : x >= y

\* the least box around a non-empty set of boxes
Hull(boxes) ==
    [min |-> [a \in Axes |-> Least({b.min[a] : b \in boxes})],
     max |-> [a \in Axes |-> Greatest({b.max[a] : b \in boxes})]]

\* box `outer` contains box `inner`
Contains(outer, inner) ==
    \A a \in Axes : outer.min[a] <= inner.min[a] /\ inner.max[a] <= outer.max[a]

PrimBoxes(objs) == {BoundingBox(objs[k]) : k \in DOMAIN objs}

\* every node's box is the least box around its primitives (a leaf) or
\* around its children's boxes (an internal node), and contains the box of
\* every primitive below it
RECURSIVE BoxesExact(_)
BoxesExact(node) ==
    /\ \A b \in PrimBoxes(LeafObjects(node)) : Contains(node.bbox, b)
    /\ IF node.kind = "Leaf"
       THEN node.bbox = Hull(PrimBoxes(node.objects))
       ELSE /\ node.bbox = Hull({node.left.bbox, node.right.bbox})
            /\ BoxesExact(node.left)
            /\ BoxesExact(node.right)

\* C11: in the tree build_bvh stored, each node's box contains the box of
\* every primitive of its subtree; a leaf's box is exactly the merge of its
\* primitives' boxes, an internal node's exactly the merge of its
\* children's.
C11_BoxesContain == bvh # NoBvh => BoxesExact(bvh)

\* C11's case: a stored tree with an internal root whose children's boxes
\* differ, so that the root's box is a proper merge
C11_Witness ==
    /\ bvh # NoBvh
    /\ bvh.kind = "Internal"
    /\ bvh.left.bbox # bvh.right.bbox
    /\ bvh.bbox # bvh.left.bbox
    /\ bvh.bbox # bvh.right.bbox

\* the surface-area-heuristic cost of splitting `order` behind position i:
\* halfSA(merge of the boxes of 0..i) * (i+1)
\*   + halfSA(merge of the boxes of i+1..n-1) * (n-i-1)
SAHCost(order, i) ==
    SurfaceAreaHalf(Hull(PrimBoxes(SubSeq(order, 1, i + 1)))) * (i + 1)
        + SurfaceAreaHalf(Hull(PrimBoxes(SubSeq(order, i + 2, Len(order)))))
            * (Len(order) - i - 1)

\* C12: a build_bvh over more than 5 primitives evaluates, for every axis
\* and every split position i in 0..n-2 of the list sorted on that axis,
\* the surface-area-heuristic cost of that split, wherever the primitives
\* lie.
C12_CostIsSAH ==
    [][(BuildBvh /\ Len(objects) > MAX_OBJECTS_PER_BVH_LEAF)
          => \A axis \in 0..2, i \in 0..(Len(objects) - 2) :
                SplitCost(OrderAt(objects, axis), i)
                    = SAHCost(OrderAt(objects, axis), i)]_vars

\* the boxes of the nodes of a tree
RECURSIVE NodeBoxes(_)
NodeBoxes(node) ==
    IF node.kind = "Leaf" THEN {node.bbox}
    ELSE {node.bbox} \cup NodeBoxes(node.left) \cup NodeBoxes(node.right)

\* the origin lies strictly between the two planes of axis i
StrictlyInside(box, ray, i) ==
    box.min[i] < ray.origin[i] /\ ray.origin[i] < box.max[i]

\* the ends of the stretch of the ray between the two planes of an axis i
\* the ray is not parallel to
SlabEnter(box, ray, i) ==
    RMin(Rat((box.min[i] - ray.origin[i]) * ray.dd, ray.dn[i]),
         Rat((box.max[i] - ray.origin[i]) * ray.dd, ray.dn[i]))

SlabLeave(box, ray, i) ==
    RMax(Rat((box.min[i] - ray.origin[i]) * ray.dd, ray.dn[i]),
         Rat((box.max[i] - ray.origin[i]) * ray.dd, ray.dn[i]))

\* the slab tests of the axes the ray is not parallel to: the stretches
\* overlap, and end at a positive t
PassesOtherAxes(box, ray) ==
    LET moving == {i \in Axes : ray.dn[i] # 0}
    IN  /\ \A i, k \in moving : RLe(SlabEnter(box, ray, i), SlabLeave(box, ray, k))
        /\ \A k \in moving : SlabLeave(box, ray, k).n > 0

\* what C13 says of AABB::hit for one box and one ray
AsClaimedOfParallel(box, ray) ==
    /\ \A i \in Axes :
          ray.dn[i] = 0
              => (ParallelRejects(box, ray, i) <=> ~ StrictlyInside(box, ray, i))
    /\ ((\E i \in Axes : ray.dn[i] = 0)
        /\ (\A i \in Axes : ray.dn[i] = 0 => StrictlyInside(box, ray, i))
        /\ PassesOtherAxes(box, ray))
          => AABBHit(box, ray)

\* C13: for the ray of a returned Scene::hit and every box of the tree it
\* went through, an axis the ray is parallel to rejects the ray exactly
\* when the origin is not strictly inside that axis' slab, and an
\* axis-parallel ray with its origin strictly inside those slabs that passes
\* the other axes' slab tests hits the box.
C13_ParallelInsideHits ==
    (result.kind = "returned" /\ bvh # NoBvh)
        => \A box \in NodeBoxes(bvh) : AsClaimedOfParallel(box, result.ray)

\* the same primitives, each as often
SameMultiset(a, b) ==
    /\ Len(a) = Len(b)
    /\ \A p \in PrimIds : Count(a, p) = Count(b, p)

\* C15: after any sequence of add and build_bvh, a hierarchy that is
\* present holds in its leaves the primitives of scene.objects, each as
\* often; every step of the scene either appends one primitive and resets
\* the hierarchy to None (add), or leaves scene.objects a rearrangement of
\* what it was (build_bvh, hit).
C15_BvhMatchesObjects ==
    /\ [](bvh # NoBvh => SameMultiset(LeafObjects(bvh), objects))
    /\ [][\/ SameMultiset(objects', objects)
          \/ \E p \in PrimIds : objects' = Append(objects, p) /\ bvh' = NoBvh]_vars

\* C15's case: a hierarchy over a scene of differing primitives that
\* build_bvh had to split
C15_Witness ==
    /\ bvh # NoBvh
    /\ Len(objects) > MAX_OBJECTS_PER_BVH_LEAF
    /\ \E i, k \in DOMAIN objects : objects[i] # objects[k]
    /\ SameMultiset(LeafObjects(bvh), objects)

\* a finished tree: leaves that hold primitives, internal nodes over two
\* finished trees
RECURSIVE IsTree(_)
IsTree(node) ==
    IF node.kind = "Leaf" THEN node.objects # <<>>
    ELSE IF node.kind = "Internal" THEN IsTree(node.left) /\ IsTree(node.right)
    ELSE FALSE

\* in the build of objs and in every build it calls, the split index lies
\* in 0..n-2 and both halves are non-empty and shorter than the list
RECURSIVE SplitsShrink(_)
SplitsShrink(objs) ==
    IF Len(objs) <= MAX_OBJECTS_PER_BVH_LEAF THEN TRUE
    ELSE LET index == BestSplit(objs).index
             left == LeftHalf(FinalOrder(objs), index)
             right == RightHalf(FinalOrder(objs), index)
         IN  /\ index \in 0..(Len(objs) - 2)
             /\ Len(left) \in 1..(Len(objs) - 1)
             /\ Len(right) \in 1..(Len(objs) - 1)
             /\ Len(left) + Len(right) = Len(objs)
             /\ SplitsShrink(left)
             /\ SplitsShrink(right)

\* C16: BVHNode::build over the primitives of a scene that holds any ends
\* with a tree, the split index of every list of more than 5 lying in
\* 0..n-2 with both halves non-empty and shorter; over no primitives it
\* panics, and build_bvh leaves the scene without a hierarchy.
C16_BuildTerminates ==
    /\ objects # <<>> =>
          /\ SplitsShrink(objects)
          /\ IsTree(Build(objects, MAX_OBJECTS_PER_BVH_LEAF))
    /\ Build(<<>>, MAX_OBJECTS_PER_BVH_LEAF).kind = "Panic"
    /\ result = Panic("build_bvh") => objects = <<>> /\ bvh = NoBvh
    /\ bvh # NoBvh => IsTree(bvh)

\* C16's case: a build that split its list into two shorter, non-empty
\* halves and returned
C16_Witness ==
    /\ bvh # NoBvh
    /\ bvh.kind = "Internal"
    /\ Len(LeafObjects(bvh.left)) \in 1..(Len(objects) - 1)
    /\ Len(LeafObjects(bvh.right)) \in 1..(Len(objects) - 1)
    /\ result = Idle

\* the left group of the split the search found best, as the slice stood
\* when its cost was computed: behind the sort on the winning axis
EvaluatedLeft(objs) ==
    LeftHalf(OrderAt(objs, BestSplit(objs).axis), BestSplit(objs).index)

\* the two groups the recursive calls are given: cut from the slice after
\* the final sort
AppliedLeft(objs) == LeftHalf(FinalOrder(objs), BestSplit(objs).index)

AppliedRight(objs) == RightHalf(FinalOrder(objs), BestSplit(objs).index)

\* C17: in a build over more than 5 primitives the left group handed to
\* the recursion holds the primitives of the left group whose cost was
\* found minimal, and no left primitive's minimum coordinate on the winning
\* axis is above a right primitive's.
C17_AppliedIsEvaluated ==
    Len(objects) > MAX_OBJECTS_PER_BVH_LEAF =>
        /\ SameMultiset(AppliedLeft(objects), EvaluatedLeft(objects))
        /\ \A l \in DOMAIN AppliedLeft(objects), r \in DOMAIN AppliedRight(objects) :
              SortKey(AppliedLeft(objects)[l], BestSplit(objects).axis)
                  <= SortKey(AppliedRight(objects)[r], BestSplit(objects).axis)

(***************************************************************************)
(* The claim about the lock of render, checked under SpecRenderLive.       *)
(***************************************************************************)
\* at most one task is between its lock and the end of its writes, and it
\* is the holder of the lock
OneWriter ==
    /\ \A j, k \in RowIds :
          (rows[j].pc = "write" /\ rows[k].pc = "write") => j = k
    /\ \A j \in RowIds : rows[j].pc = "write" <=> lock = HeldBy(j)

\* no task waits for the lock it holds
NoSelfWait == \A j \in RowIds : lock = HeldBy(j) => rows[j].pc # "lock"

\* C14: at most one row task is inside a pixel write at any time, no task
\* holds the lock while it waits for it, the buffer is converted to bytes
\* only after all row tasks have ended, and under fair scheduling every row
\* task ends and render returns the bytes.
C14_LockDiscipline ==
    /\ [](OneWriter /\ NoSelfWait /\ (bytes # <<>> => AllRowsDone))
    /\ <>(AllRowsDone /\ lock = Free /\ bytes # <<>>)

\* C14's case: one task inside its pixel write while another waits for the
\* lock
C14_Witness ==
    \E j, k \in RowIds :
        /\ j # k
        /\ rows[j].pc = "write"
        /\ lock = HeldBy(j)
        /\ rows[k].pc = "lock"

(***************************************************************************)
(* The claim about the u32 arithmetic of render, checked under SpecIndex.  *)
(***************************************************************************)
\* width * height * 3 < 2^32, decided without forming the product:
\* width * height <= (2^32 - 1) \div 3
Fits32(width, height) == width <= 1431655765 \div height

\* a u32 divided by 3: the quotient, a number below 2^31, and the rest
Div3(a) ==
    [q |-> (a.hi \div 3) * Half + ((a.hi % 3) * Half + a.lo) \div 3,
     r |-> ((a.hi % 3) * Half + a.lo) % 3]

\* C18: when image_width * image_height * 3 < 2^32, no step of the u32
\* arithmetic wraps, the buffer length is that product, and every write
\* index is (i + (image_height - 1 - j) * image_width) * 3 + c and below
\* the buffer length; for larger images the product overflows.
C18_IndexFits32 ==
    arith.pc \in {"allocated", "written", "panic"} =>
        IF Fits32(arith.width, arith.height)
        THEN /\ arith.pc # "panic"
             /\ ~ arith.len.wrapped
             /\ Div3(arith.len) = [q |-> arith.width * arith.height, r |-> 0]
             /\ arith.pc = "written" =>
                   /\ ~ arith.index.wrapped
                   /\ Div3(arith.index)
                         = [q |-> arith.i + (arith.height - 1 - arith.j) * arith.width,
                            r |-> arith.c]
                   /\ U32Less(arith.index, arith.len)
        ELSE \/ arith.pc = "panic"
             \/ arith.len.wrapped

\* C18's case: an image whose buffer length is above 2^31 and below 2^32,
\* and the write of its last index
C18_Witness ==
    /\ arith.pc = "written"
    /\ Fits32(arith.width, arith.height)
    /\ arith.len.hi >= 32768
    /\ U32Add(arith.index, U32(1)) = arith.len

====
